---- MODULE Spec2Model ----
(***************************************************************************)
(* Model of server/db.ts: the database liveness probe pingDb, the          *)
(* environment-derived auth switch AUTH_ENABLED, the memoized OIDC         *)
(* discovery getOidcConfig, the startup wiring setupAuth with its three    *)
(* auth endpoints, and the route guard isAuthenticated.                    *)
(*                                                                         *)
(* Time is the wall clock in milliseconds (Date.now()).  An async function *)
(* is cut at its awaits: one action per synchronous stretch.               *)
(***************************************************************************)
EXTENDS Integers, Sequences, FiniteSets, TLC

VARIABLES
    env,            \* process.env: ALLOWED_ORIGINS, REPLIT_DOMAINS, REPL_ID
    allowedDomains, \* db.ts:42  array of origin strings
    AUTH_ENABLED,   \* db.ts:47
    clock,          \* Date.now(), milliseconds
    ticks,          \* number of clock advances so far
    cache,          \* memoizee entry of getOidcConfig: 0 = empty, else index into promises
    promises,       \* the discovery promises created so far: [at, state]
    lastCall,       \* the latest getOidcConfig call: [at, fetched, prevFailed, id]
    setup,          \* position of setupAuth: "start", "awaitConfig", "ready", "failed"
    strategies,     \* names registered with passport.use
    oidc,           \* the latest openid-client call made, "none" before the first
    session,        \* the persisted session's user (req.session.passport.user) or NoUser
    reqs,           \* the HTTP requests, in order of arrival: one record each
    pings,          \* the pingDb calls: one record per caller
    held            \* pool clients currently checked out by pingDb

authVars == << env, allowedDomains, AUTH_ENABLED, clock, ticks, cache, promises, lastCall,
               setup, strategies, oidc, session, reqs >>
pingVars == << pings, held >>
vars == << authVars, pingVars >>

(***************************************************************************)
(* Bounds of the model.                                                    *)
(***************************************************************************)
MaxReq == 2      \* HTTP requests handled in one behaviour
MaxTicks == 3    \* clock advances in one behaviour
MaxPing == 3     \* pingDb calls in one behaviour
MaxLen == 2      \* length of the origin settings the module is loaded with

\* The clock advances by half a second or by half an hour.
Steps == {500, 1800 * 1000}

(***************************************************************************)
(* JavaScript values.  undefined is Undefined for strings and tokens, and  *)
(* NoExp for the numeric exp / expires_at; an unset environment variable   *)
(* is the empty option << >>, a set one is << string >>.  Strings that are *)
(* parsed are sequences of one-character strings.                          *)
(***************************************************************************)
Undefined == "undefined"
NoExp == -1
Unset == << >>
NoUser == [anonymous |-> TRUE]
NoClaims == [undefined |-> TRUE]

\* a ?? b
Nullish(a, b) == IF a = Unset THEN b ELSE a

\* String.prototype.split(",")
RECURSIVE split(_)
split(s) ==
    IF \A i \in 1..Len(s) : s[i] # ","
    THEN << s >>
    ELSE LET i == CHOOSE k \in 1..Len(s) : s[k] = "," /\ \A j \in 1..(k-1) : s[j] # ","
         IN  << SubSeq(s, 1, i-1) >> \o split(SubSeq(s, i+1, Len(s)))

\* String.prototype.trim()
RECURSIVE trim(_)
trim(s) ==
    IF s # << >> /\ Head(s) = " " THEN trim(Tail(s))
    ELSE IF s # << >> /\ s[Len(s)] = " " THEN trim(SubSeq(s, 1, Len(s)-1))
    ELSE s

\* db.ts:37-40
rawDomains(e) == Nullish(e.ALLOWED_ORIGINS, Nullish(e.REPLIT_DOMAINS, << << >> >>))[1]

\* variant: the empty pieces are not filtered out
ParseDomainsUnfiltered(e) ==
    LET parts == split(rawDomains(e))
    IN  [i \in 1..Len(parts) |-> trim(parts[i])]

\* db.ts:42-45  .split(",").map(s => s.trim()).filter(Boolean)
ParseDomains(e) ==
    LET parts == split(rawDomains(e))
        trimmed == [i \in 1..Len(parts) |-> trim(parts[i])]
    IN  SelectSeq(trimmed, LAMBDA d : d # << >>)

\* db.ts:47  allowedDomains.length > 0 && !!process.env.REPL_ID
AuthEnabled(domains, e) == Len(domains) > 0 /\ e.REPL_ID # Unset /\ e.REPL_ID # << << >> >>

\* The environments a deployment is started with.
EnvConfigs ==
    { [ALLOWED_ORIGINS |-> Unset, REPLIT_DOMAINS |-> Unset, REPL_ID |-> << << "i" >> >>],
      [ALLOWED_ORIGINS |-> << << "a", ",", " ", "b" >> >>, REPLIT_DOMAINS |-> Unset,
       REPL_ID |-> << << "i" >> >>],
      [ALLOWED_ORIGINS |-> << << >> >>, REPLIT_DOMAINS |-> << << "a" >> >>,
       REPL_ID |-> << << "i" >> >>],
      [ALLOWED_ORIGINS |-> << << "a" >> >>, REPLIT_DOMAINS |-> Unset, REPL_ID |-> Unset],
      [ALLOWED_ORIGINS |-> << << " ", ",", " " >> >>, REPLIT_DOMAINS |-> << << "b" >> >>,
       REPL_ID |-> << << >> >>] }

\* Every setting of the two origin variables up to MaxLen characters, with
\* REPL_ID unset, empty or set.
OriginSettings ==
    {Unset} \cup { << s >> : s \in UNION { [1..k -> {"a", ",", " "}] : k \in 0..MaxLen } }

LoadEnvs ==
    [ALLOWED_ORIGINS : OriginSettings, REPLIT_DOMAINS : OriginSettings,
     REPL_ID : {Unset, << << >> >>, << << "i" >> >>}]

\* req.hostname of the requests to the auth endpoints
Hostnames == { << "a" >>, << "b" >>, << "c" >> }

\* db.ts:150, 164, 171  `replitauth:${domain}`
StrategyName(domain) == << "replitauth:" >> \o domain

(***************************************************************************)
(* The user object of a session (db.ts:92-100) and the token responses of  *)
(* the identity provider.                                                  *)
(***************************************************************************)
ExpValues == {1, 1800, 3601}

User(claims, at, rt, exp) ==
    [claims |-> claims, access_token |-> at, refresh_token |-> rt, expires_at |-> exp]

\* Math.floor(Date.now() / 1000)
NowSeconds(ms) == ms \div 1000

\* A token endpoint response as openid-client hands it over: claims() is undefined
\* when the response carries no ID token, and a validated ID token has exp > now;
\* the refresh token is optional.
TokenResponses(ms) ==
    { [claims |-> c, access_token |-> "at1", refresh_token |-> rt] :
        c \in {NoClaims} \cup { [sub |-> "u", exp |-> e] : e \in {x \in ExpValues : x > NowSeconds(ms)} },
        rt \in {Undefined, "rt1"} }

\* The response of the authorization-code exchange carries an ID token.
LoginResponses(ms) == { t \in TokenResponses(ms) : t.claims # NoClaims }

\* user.claims?.exp
ClaimsExp(claims) == IF claims = NoClaims THEN NoExp ELSE claims.exp

\* variant: a response without a refresh token keeps the one the user had
updateUserSessionKeepsToken(user, tokens) ==
    [user EXCEPT !.claims = tokens.claims,
                 !.access_token = tokens.access_token,
                 !.refresh_token = IF tokens.refresh_token = Undefined
                                   THEN @ ELSE tokens.refresh_token,
                 !.expires_at = ClaimsExp(tokens.claims)]

\* db.ts:92-100
updateUserSession(user, tokens) ==
    [user EXCEPT !.claims = tokens.claims,
                 !.access_token = tokens.access_token,
                 !.refresh_token = tokens.refresh_token,
                 !.expires_at = ClaimsExp(tokens.claims)]

\* db.ts:140  const user: any = {}
EmptyUser == User(NoClaims, Undefined, Undefined, NoExp)

\* The sessions the store may already hold when the process starts.
InitSessions ==
    { NoUser,
      User([sub |-> "u", exp |-> 1], "at0", "rt0", 1),
      User([sub |-> "u", exp |-> 1], "at0", Undefined, 1),
      User(NoClaims, "at0", "rt0", NoExp) }

(***************************************************************************)
(* The memoized discovery (db.ts:58-66).  memoize() without the promise    *)
(* mode stores what the function returns, here the promise, whatever it    *)
(* settles to, and drops it maxAge after it was stored.                    *)
(***************************************************************************)
maxAge == 3600 * 1000

\* variant: the entry outlives its maxAge by one reading of the clock
ExpiredLate(at, ms) == ms > at + maxAge

\* the maxAge timer of an entry stored at `at` has fired by `ms`
Expired(at, ms) == ms >= at + maxAge

\* the entry left in the cache when the clock reads ms
CacheAt(c, ps, ms) == IF c # 0 /\ Expired(ps[c].at, ms) THEN 0 ELSE c

\* getOidcConfig(): the promise returned and the state left behind
GetOidcConfig ==
    LET hit == cache # 0
        prevFailed == promises # << >> /\ promises[Len(promises)].state = "fail"
        id == IF hit THEN cache ELSE Len(promises) + 1
    IN  [id |-> id,
         cache |-> id,
         promises |-> IF hit THEN promises
                      ELSE Append(promises, [at |-> clock, state |-> "pending"]),
         lastCall |-> [at |-> clock, fetched |-> ~hit, prevFailed |-> prevFailed, id |-> id],
         oidc |-> IF hit THEN oidc ELSE "discovery"]

(***************************************************************************)
(* Initial state: the module has been loaded (db.ts:37-55), nothing has    *)
(* run yet.                                                                *)
(***************************************************************************)
\* no token response received (yet)
NoTokens == [none |-> TRUE]

NoCall == [at |-> 0, fetched |-> FALSE, prevFailed |-> FALSE, id |-> 0]

IdleReq ==
    [route |-> "none", pc |-> "idle", user |-> NoUser, user0 |-> NoUser, now |-> -1, cfg |-> 0,
     refreshToken |-> Undefined, exchanges |-> 0, grant |-> "none",
     outcome |-> "none", status |-> 0, stale |-> FALSE,
     nexts |-> 0, responses |-> 0, body |-> "none", strategy |-> << >>,
     tokens |-> NoTokens]

IdlePing ==
    [pc |-> "idle", connect |-> "none", query |-> "none", queries |-> 0, releases |-> 0,
     result |-> "none"]

InitAuth ==
    /\ env \in EnvConfigs
    /\ allowedDomains = ParseDomains(env)
    /\ AUTH_ENABLED = AuthEnabled(allowedDomains, env)
    /\ clock = 0
    /\ ticks = 0
    /\ cache = 0
    /\ promises = << >>
    /\ lastCall = NoCall
    /\ setup = "start"
    /\ strategies = {}
    /\ oidc = "none"
    /\ session \in InitSessions
    /\ reqs = [r \in 1..MaxReq |-> IdleReq]

InitPing ==
    /\ pings = [p \in 1..MaxPing |-> IdlePing]
    /\ held = 0

Init == InitAuth /\ InitPing

\* the module loaded under any of the origin settings, with an empty session store
InitLoad ==
    /\ env \in LoadEnvs
    /\ allowedDomains = ParseDomains(env)
    /\ AUTH_ENABLED = AuthEnabled(allowedDomains, env)
    /\ clock = 0
    /\ ticks = 0
    /\ cache = 0
    /\ promises = << >>
    /\ lastCall = NoCall
    /\ setup = "start"
    /\ strategies = {}
    /\ oidc = "none"
    /\ session = NoUser
    /\ reqs = [r \in 1..MaxReq |-> IdleReq]
    /\ InitPing

(***************************************************************************)
(* The clock, and the discovery request settling.                          *)
(***************************************************************************)
Tick(d) ==
    /\ ticks < MaxTicks
    /\ clock' = clock + d
    /\ ticks' = ticks + 1
    /\ cache' = CacheAt(cache, promises, clock')
    /\ UNCHANGED << env, allowedDomains, AUTH_ENABLED, promises, lastCall, setup, strategies,
                    oidc, session, reqs, pingVars >>

\* client.discovery() resolves or rejects (db.ts:60-63)
DiscoverySettles(p, ok) ==
    /\ p \in 1..Len(promises)
    /\ promises[p].state = "pending"
    /\ promises' = [promises EXCEPT ![p].state = IF ok THEN "ok" ELSE "fail"]
    /\ UNCHANGED << env, allowedDomains, AUTH_ENABLED, clock, ticks, cache, lastCall, setup,
                    strategies, oidc, session, reqs, pingVars >>

(***************************************************************************)
(* setupAuth (db.ts:113-187).                                              *)
(***************************************************************************)
\* db.ts:120  if (!AUTH_ENABLED)
AuthDisabled == ~AUTH_ENABLED

\* variant: the loop registers the first domain only
RegisteredFirstOnly(domains) == { StrategyName(domains[1]) }

\* db.ts:146-158  one strategy per allowed domain
RegisteredNames(domains) == { StrategyName(domains[i]) : i \in 1..Len(domains) }

\* db.ts:114-134: session middleware, then the 503/200 routes and return, or the
\* call of getOidcConfig() and the suspension at its await
SetupStart ==
    /\ setup = "start"
    /\ IF AuthDisabled
       THEN /\ setup' = "ready"
            /\ UNCHANGED << cache, promises, lastCall, oidc >>
       ELSE LET g == GetOidcConfig
            IN  /\ setup' = "awaitConfig"
                /\ cache' = g.cache
                /\ promises' = g.promises
                /\ lastCall' = g.lastCall
                /\ oidc' = g.oidc
    /\ UNCHANGED << env, allowedDomains, AUTH_ENABLED, clock, ticks, strategies,
                    session, reqs, pingVars >>

\* db.ts:134-186 after the await: a rejected discovery rejects setupAuth, a
\* resolved one registers the strategies and the routes
SetupConfigSettled ==
    /\ setup = "awaitConfig"
    /\ promises[1].state # "pending"
    /\ IF promises[1].state = "ok"
       THEN /\ setup' = "ready"
            /\ strategies' = RegisteredNames(allowedDomains)
            /\ oidc' = "strategy"
       ELSE /\ setup' = "failed"
            /\ UNCHANGED << strategies, oidc >>
    /\ UNCHANGED << env, allowedDomains, AUTH_ENABLED, clock, ticks, cache, promises, lastCall,
                    session, reqs, pingVars >>

\* the requests are numbered in the order they arrive
MayStart(r) == reqs[r].pc = "idle" /\ (IF r = 1 THEN TRUE ELSE reqs[r-1].pc # "idle")

\* res.status(code).json(...), res.redirect(...), or the framework's error answer
Respond(q, route, code) ==
    [q EXCEPT !.route = route, !.pc = "done", !.outcome = "response", !.status = code,
              !.responses = @ + 1]

\* a login or logout replaces the session: guarded requests in flight hold the old one
Stale(rs) == [r \in DOMAIN rs |-> IF rs[r].pc \in {"awaitConfig", "awaitGrant"}
                                  THEN [rs[r] EXCEPT !.stale = TRUE] ELSE rs[r]]

\* passport.authenticate(`replitauth:${req.hostname}`, ...): the strategy named
Authenticate(q, h) == [q EXCEPT !.strategy = StrategyName(h)]

\* GET /api/login  (db.ts:122-124, 163-168)
Login(r, h) ==
    /\ setup = "ready"
    /\ MayStart(r)
    /\ IF AuthDisabled
       THEN /\ reqs' = [reqs EXCEPT ![r] = Respond(@, "login", 503)]
            /\ oidc' = oidc
       ELSE IF StrategyName(h) \in strategies
       THEN /\ reqs' = [reqs EXCEPT ![r] = Respond(Authenticate(@, h), "login", 302)]
            /\ oidc' = "authorize"
       ELSE /\ reqs' = [reqs EXCEPT ![r] = Respond(Authenticate(@, h), "login", 500)]
            /\ oidc' = oidc
    /\ UNCHANGED << env, allowedDomains, AUTH_ENABLED, clock, ticks, cache, promises, lastCall,
                    setup, strategies, session, pingVars >>

\* GET /api/callback  (db.ts:125-127, 136-144, 170-175); granted is the code
\* exchange succeeding, tokens its response
Callback(r, h, granted, tokens) ==
    /\ setup = "ready"
    /\ MayStart(r)
    /\ IF AuthDisabled
       THEN /\ reqs' = [reqs EXCEPT ![r] = Respond(@, "callback", 503)]
            /\ UNCHANGED << oidc, session >>
       ELSE IF StrategyName(h) \notin strategies
       THEN /\ reqs' = [reqs EXCEPT ![r] = Respond(Authenticate(@, h), "callback", 500)]
            /\ UNCHANGED << oidc, session >>
       ELSE /\ oidc' = "codeGrant"
            /\ IF granted
               THEN /\ session' = updateUserSession(EmptyUser, tokens)
                    /\ reqs' = [Stale(reqs) EXCEPT
                                  ![r] = Respond(Authenticate(@, h), "callback", 302)]
               ELSE /\ session' = session
                    /\ reqs' = [reqs EXCEPT
                                  ![r] = Respond(Authenticate(@, h), "callback", 302)]
    /\ UNCHANGED << env, allowedDomains, AUTH_ENABLED, clock, ticks, cache, promises, lastCall,
                    setup, strategies, pingVars >>

\* GET /api/logout  (db.ts:128-130, 177-186)
Logout(r) ==
    /\ setup = "ready"
    /\ MayStart(r)
    /\ IF AuthDisabled
       THEN /\ reqs' = [reqs EXCEPT ![r] = Respond(@, "logout", 200)]
            /\ UNCHANGED << oidc, session >>
       ELSE /\ reqs' = [Stale(reqs) EXCEPT ![r] = Respond(@, "logout", 302)]
            /\ oidc' = "endSession"
            /\ session' = NoUser
    /\ UNCHANGED << env, allowedDomains, AUTH_ENABLED, clock, ticks, cache, promises, lastCall,
                    setup, strategies, pingVars >>

(***************************************************************************)
(* The guard isAuthenticated (db.ts:190-218).                              *)
(***************************************************************************)
\* variant: the guard without its disabled-auth shortcut
GuardNeverOff == FALSE

\* db.ts:192  if (!AUTH_ENABLED) return next()
GuardOff == ~AUTH_ENABLED

\* variant: only the number 0 counts as a missing expiry
FalsyZeroOnly(exp) == exp = 0

\* !user.expires_at
Falsy(exp) == exp = NoExp \/ exp = 0

\* db.ts:196  !req.isAuthenticated() || !user.expires_at
Unauthorized(user) == IF user = NoUser THEN TRUE ELSE Falsy(user.expires_at)

\* variant: the expiry second itself no longer counts as valid
StillValidStrict(now, exp) == now < exp

\* db.ts:201  now <= user.expires_at
StillValid(now, exp) == now <= exp

\* variant: the refresh is attempted without looking at the token
NoRefreshTokenIgnored(rt) == FALSE

\* db.ts:206  !refreshToken
NoRefreshToken(rt) == rt = Undefined

\* return next()
Allow(q) == [q EXCEPT !.pc = "done", !.outcome = "next", !.nexts = @ + 1]

\* variant: the 401 is sent without the return, and the handler goes on to next()
DenyWithoutReturn(q) ==
    [q EXCEPT !.pc = "done", !.outcome = "next", !.status = 401,
              !.responses = @ + 1, !.body = "Unauthorized", !.nexts = @ + 1]

\* variant: the denial drops the principal from the request
DenyClearsUser(q) ==
    [q EXCEPT !.pc = "done", !.outcome = "response", !.status = 401,
              !.responses = @ + 1, !.body = "Unauthorized", !.user = NoUser]

\* return res.status(401).json({ message: "Unauthorized" })
Deny(q) ==
    [q EXCEPT !.pc = "done", !.outcome = "response", !.status = 401,
              !.responses = @ + 1, !.body = "Unauthorized"]

\* variant: the catch block lets the request through
CaughtAllows(q) == Allow(q)

\* variant: the catch block reports what went wrong
CaughtExplains(q) == [Deny(q) EXCEPT !.body = "Token refresh failed"]

\* db.ts:215-217  catch { ... }
Caught(q) == Deny(q)

\* db.ts:190-211: from the entry of the guard to its first terminal outcome or
\* to the await of getOidcConfig()
GuardEnter(r) ==
    /\ setup = "ready"
    /\ MayStart(r)
    /\ LET user == session
           q == [reqs[r] EXCEPT !.route = "guard", !.user = user, !.user0 = user]
           now == NowSeconds(clock)
           qn == [q EXCEPT !.now = now]
       IN  IF GuardOff
           THEN /\ reqs' = [reqs EXCEPT ![r] = Allow(q)]
                /\ UNCHANGED << cache, promises, lastCall, oidc >>
           ELSE IF Unauthorized(user)
           THEN /\ reqs' = [reqs EXCEPT ![r] = Deny(q)]
                /\ UNCHANGED << cache, promises, lastCall, oidc >>
           ELSE IF StillValid(now, user.expires_at)
           THEN /\ reqs' = [reqs EXCEPT ![r] = Allow(qn)]
                /\ UNCHANGED << cache, promises, lastCall, oidc >>
           ELSE IF NoRefreshToken(user.refresh_token)
           THEN /\ reqs' = [reqs EXCEPT ![r] = Deny(qn)]
                /\ UNCHANGED << cache, promises, lastCall, oidc >>
           ELSE LET g == GetOidcConfig
                IN  /\ reqs' = [reqs EXCEPT ![r] =
                                  [qn EXCEPT !.pc = "awaitConfig", !.cfg = g.id,
                                             !.refreshToken = user.refresh_token]]
                    /\ cache' = g.cache
                    /\ promises' = g.promises
                    /\ lastCall' = g.lastCall
                    /\ oidc' = g.oidc
    /\ UNCHANGED << env, allowedDomains, AUTH_ENABLED, clock, ticks, setup, strategies,
                    session, pingVars >>

\* variant: a request joins the exchange another request has in flight for the
\* same refresh token instead of starting its own
StartsJointExchange(r) ==
    ~ \E o \in DOMAIN reqs :
          o # r /\ reqs[o].pc = "awaitGrant" /\ reqs[o].refreshToken = reqs[r].refreshToken

\* db.ts:212  client.refreshTokenGrant(config, refreshToken): each request starts
\* its own exchange, whatever the other requests are doing
StartsOwnExchange(r) == TRUE

\* db.ts:211-212: the discovery promise has settled; a rejection lands in the
\* catch, a configuration starts the refresh-token exchange
GuardConfigSettled(r) ==
    /\ reqs[r].pc = "awaitConfig"
    /\ promises[reqs[r].cfg].state # "pending"
    /\ IF promises[reqs[r].cfg].state = "ok"
       THEN /\ reqs' = [reqs EXCEPT ![r].pc = "awaitGrant",
                                    ![r].exchanges = IF StartsOwnExchange(r) THEN @ + 1 ELSE @,
                                    ![r].grant = "pending"]
            /\ oidc' = "refresh"
       ELSE /\ reqs' = [reqs EXCEPT ![r] = Caught(@)]
            /\ oidc' = oidc
    /\ UNCHANGED << env, allowedDomains, AUTH_ENABLED, clock, ticks, cache, promises, lastCall,
                    setup, strategies, session, pingVars >>

\* db.ts:212-217: the exchange has settled; granted with the response tokens, or
\* rejected.  The session middleware stores the changed user when the response ends.
GuardGrantSettled(r, granted, tokens) ==
    /\ reqs[r].pc = "awaitGrant"
    /\ IF granted
       THEN LET q == [reqs[r] EXCEPT !.grant = "ok", !.tokens = tokens,
                                     !.user = updateUserSession(@, tokens)]
            IN  /\ reqs' = [reqs EXCEPT ![r] = Allow(q)]
                /\ session' = IF q.stale THEN session ELSE q.user
       ELSE /\ reqs' = [reqs EXCEPT ![r] = Caught([@ EXCEPT !.grant = "fail"])]
            /\ session' = session
    /\ UNCHANGED << env, allowedDomains, AUTH_ENABLED, clock, ticks, cache, promises, lastCall,
                    setup, strategies, oidc, pingVars >>

(***************************************************************************)
(* pingDb (db.ts:16-20).                                                   *)
(***************************************************************************)
\* variant: the release sits after the query inside the try block
ReleasesOnSuccessOnly(ok) == ok

\* finally { client.release() }: the release runs whether the query succeeded
ReleasesAfterQuery(ok) == TRUE

\* variant: a catch block turns the failed query into false
PingResultCaught(ok) == IF ok THEN "true" ELSE "false"

\* try { await client.query("select 1"); return true; } with no catch:
\* the value the returned promise settles to
PingResult(ok) == IF ok THEN "true" ELSE "threw"

\* db.ts:17  pool.connect() is called and awaited
PingCall(p) ==
    /\ pings[p].pc = "idle"
    /\ pings' = [pings EXCEPT ![p].pc = "connecting"]
    /\ UNCHANGED << held, authVars >>

\* db.ts:17-18: the acquisition settled; a rejection leaves pingDb before its
\* try block, a client starts the query
PingConnected(p, ok) ==
    /\ pings[p].pc = "connecting"
    /\ IF ok
       THEN /\ pings' = [pings EXCEPT ![p].pc = "querying", ![p].connect = "ok",
                                      ![p].queries = @ + 1]
            /\ held' = held + 1
       ELSE /\ pings' = [pings EXCEPT ![p].pc = "done", ![p].connect = "fail",
                                      ![p].result = "threw"]
            /\ held' = held
    /\ UNCHANGED authVars

\* db.ts:18-19: the query settled; the finally block, then the return or the throw
PingQueried(p, ok) ==
    /\ pings[p].pc = "querying"
    /\ LET rel == ReleasesAfterQuery(ok)
       IN  /\ pings' = [pings EXCEPT ![p].pc = "done",
                                     ![p].query = IF ok THEN "ok" ELSE "fail",
                                     ![p].releases = IF rel THEN @ + 1 ELSE @,
                                     ![p].result = PingResult(ok)]
           /\ held' = IF rel THEN held - 1 ELSE held
    /\ UNCHANGED authVars

NextPing ==
    \/ \E p \in 1..MaxPing : PingCall(p)
    \/ \E p \in 1..MaxPing, ok \in BOOLEAN : PingConnected(p, ok)
    \/ \E p \in 1..MaxPing, ok \in BOOLEAN : PingQueried(p, ok)

NextAuth ==
    \/ \E d \in Steps : Tick(d)
    \/ \E p \in 1..MaxReq + 1, ok \in BOOLEAN : DiscoverySettles(p, ok)
    \/ SetupStart
    \/ SetupConfigSettled
    \/ \E r \in 1..MaxReq, h \in Hostnames : Login(r, h)
    \/ \E r \in 1..MaxReq, h \in Hostnames, granted \in BOOLEAN :
         \E t \in LoginResponses(clock) : Callback(r, h, granted, t)
    \/ \E r \in 1..MaxReq : Logout(r)
    \/ \E r \in 1..MaxReq : GuardEnter(r)
    \/ \E r \in 1..MaxReq : GuardConfigSettled(r)
    \/ \E r \in 1..MaxReq, granted \in BOOLEAN :
         \E t \in TokenResponses(clock) : GuardGrantSettled(r, granted, t)

Spec == Init /\ [][NextAuth]_vars

SpecPing == Init /\ [][NextPing]_vars

\* startup and the first requests, under every origin setting
NextLoad ==
    \/ SetupStart
    \/ \E ok \in BOOLEAN : DiscoverySettles(1, ok)
    \/ SetupConfigSettled
    \/ \E r \in 1..MaxReq, h \in Hostnames : Login(r, h)
    \/ \E r \in 1..MaxReq : GuardEnter(r)

SpecLoad == InitLoad /\ [][NextLoad]_vars

(***************************************************************************)
(* Properties.                                                             *)
(***************************************************************************)
\* the guarded requests that have entered the guard
Guarded == { r \in 1..MaxReq : reqs[r].route = "guard" }

\* the user the request arrived with had an expiry and it had not passed at the check
FreshAtCheck(q) ==
    IF q.user0 = NoUser THEN FALSE
    ELSE q.user0.expires_at > 0 /\ q.now >= 0 /\ q.now <= q.user0.expires_at

\* the user the request arrived with had an expiry and it had passed at the check
ExpiredAtCheck(q) ==
    IF q.user0 = NoUser THEN FALSE
    ELSE q.user0.expires_at > 0 /\ q.now > q.user0.expires_at

\* the request arrived with no principal or with no expiry
NoPrincipalOrExpiry(q) ==
    IF q.user0 = NoUser THEN TRUE ELSE q.user0.expires_at \in {NoExp, 0}

\* C1: with auth enabled, a guarded request is passed on only when its expiry had
\* not passed at the check or its own refresh-token exchange succeeded.
C1_PassNeedsFreshOrRefresh ==
    AUTH_ENABLED =>
        \A r \in Guarded :
            reqs[r].outcome = "next" => (FreshAtCheck(reqs[r]) \/ reqs[r].grant = "ok")

C1_Witness ==
    \E r \in Guarded :
        /\ AUTH_ENABLED
        /\ reqs[r].outcome = "next"
        /\ ExpiredAtCheck(reqs[r])
        /\ reqs[r].grant = "ok"

\* C2 (as claimed): an expired session with a refresh token whose exchange succeeds
\* is passed on with an expires_at later than the time of the check, and whose
\* exchange fails is answered 401.
C2_RefreshYieldsFutureExpiry ==
    AUTH_ENABLED =>
        \A r \in Guarded :
            (ExpiredAtCheck(reqs[r]) /\ reqs[r].user0.refresh_token # Undefined) =>
                /\ reqs[r].grant = "ok" =>
                      (reqs[r].outcome = "next" /\ reqs[r].user.expires_at > reqs[r].now)
                /\ reqs[r].grant = "fail" => reqs[r].status = 401

\* C3 (as claimed): a getOidcConfig call that follows a rejected discovery
\* performs a new fetch.
C3_FailureNotCached == lastCall.prevFailed => lastCall.fetched

\* C4: no fetch is issued within maxAge of a successful earlier one; a call that
\* performs no fetch is answered by a fetch less than maxAge old, so a call made
\* once maxAge has elapsed performs a new fetch; and a call that performs a fetch
\* comes at least maxAge after every earlier fetch, so calls within the window
\* reuse the cached value.
C4_OneFetchPerWindow ==
    /\ \A i, j \in 1..Len(promises) :
          (i < j /\ promises[i].state = "ok") => promises[j].at >= promises[i].at + maxAge
    /\ lastCall.id # 0 =>
          /\ ~lastCall.fetched =>
                /\ lastCall.at >= promises[lastCall.id].at
                /\ lastCall.at < promises[lastCall.id].at + maxAge
          /\ lastCall.fetched =>
                /\ lastCall.at = promises[lastCall.id].at
                /\ \A i \in 1..(lastCall.id - 1) : lastCall.at >= promises[i].at + maxAge

C4_Witness ==
    /\ Len(promises) = 2
    /\ promises[1].state = "ok"
    /\ promises[2].state = "ok"
    /\ promises[2].at = promises[1].at + maxAge
    /\ lastCall.id = 2
    /\ ~lastCall.fetched

\* C5: with auth disabled every guarded request is passed on, login and callback
\* answer 503, logout answers 200, and no OIDC call is ever made.
C5_DisabledFailsOpen ==
    ~AUTH_ENABLED =>
        /\ oidc = "none"
        /\ promises = << >>
        /\ lastCall = NoCall
        /\ strategies = {}
        /\ \A r \in 1..MaxReq :
              /\ reqs[r].pc \in {"idle", "done"}
              /\ reqs[r].exchanges = 0
              /\ reqs[r].route = "guard" => (reqs[r].outcome = "next" /\ reqs[r].status = 0)
              /\ reqs[r].route \in {"login", "callback"} => reqs[r].status = 503
              /\ reqs[r].route = "logout" => reqs[r].status = 200

C5_Witness ==
    /\ ~AUTH_ENABLED
    /\ \E r \in Guarded :
          /\ reqs[r].outcome = "next"
          /\ reqs[r].user0 # NoUser
          /\ reqs[r].user0.refresh_token = Undefined
    /\ \E r \in 1..MaxReq : reqs[r].route = "logout" /\ reqs[r].status = 200

\* C6: with auth enabled, a request with no principal or no expiry is answered 401,
\* is never passed on and never starts a discovery or a refresh.
C6_NoPrincipalDenied ==
    AUTH_ENABLED =>
        \A r \in Guarded :
            NoPrincipalOrExpiry(reqs[r]) =>
                /\ reqs[r].pc = "done"
                /\ reqs[r].outcome = "response"
                /\ reqs[r].status = 401
                /\ reqs[r].cfg = 0
                /\ reqs[r].exchanges = 0

C6_Witness ==
    \E r \in Guarded :
        /\ AUTH_ENABLED
        /\ reqs[r].user0 # NoUser
        /\ reqs[r].user0.expires_at = NoExp
        /\ reqs[r].user0.refresh_token # Undefined
        /\ reqs[r].status = 401

\* C7: with auth enabled, a session whose expiry has not passed (the expiry second
\* included) is passed on with no discovery, no exchange and the user untouched.
C7_FreshPassesWithoutRefresh ==
    AUTH_ENABLED =>
        \A r \in Guarded :
            FreshAtCheck(reqs[r]) =>
                /\ reqs[r].pc = "done"
                /\ reqs[r].outcome = "next"
                /\ reqs[r].cfg = 0
                /\ reqs[r].exchanges = 0
                /\ reqs[r].user = reqs[r].user0

C7_Witness ==
    \E r \in Guarded :
        /\ AUTH_ENABLED
        /\ reqs[r].outcome = "next"
        /\ reqs[r].user0 # NoUser
        /\ reqs[r].now = reqs[r].user0.expires_at
        /\ reqs[r].user0.refresh_token # Undefined

\* C8: with auth enabled, an expired session without a refresh token is answered
\* 401 with no discovery and no exchange.
C8_ExpiredWithoutTokenDenied ==
    AUTH_ENABLED =>
        \A r \in Guarded :
            (ExpiredAtCheck(reqs[r]) /\ reqs[r].user0.refresh_token = Undefined) =>
                /\ reqs[r].pc = "done"
                /\ reqs[r].outcome = "response"
                /\ reqs[r].status = 401
                /\ reqs[r].cfg = 0
                /\ reqs[r].exchanges = 0

C8_Witness ==
    \E r \in Guarded :
        /\ AUTH_ENABLED
        /\ ExpiredAtCheck(reqs[r])
        /\ reqs[r].user0.refresh_token = Undefined
        /\ reqs[r].status = 401
        /\ promises # << >>

\* C9: a pingDb call that acquired a client has released it exactly once when it
\* ends, whatever the query did; one whose acquisition failed ran no query and
\* released nothing; the pool holds exactly the clients of the calls still querying.
C9_ReleasedExactlyOnce ==
    /\ \A p \in 1..MaxPing :
          /\ (pings[p].pc = "done" /\ pings[p].connect = "ok") => pings[p].releases = 1
          /\ pings[p].pc # "done" => pings[p].releases = 0
          /\ pings[p].connect = "fail" => (pings[p].queries = 0 /\ pings[p].releases = 0)
    /\ held = Cardinality({ p \in 1..MaxPing : pings[p].pc = "querying" })

C9_Witness ==
    /\ held = 0
    /\ \E p \in 1..MaxPing :
          pings[p].pc = "done" /\ pings[p].query = "fail" /\ pings[p].releases = 1
    /\ \E p \in 1..MaxPing :
          pings[p].pc = "done" /\ pings[p].query = "ok" /\ pings[p].releases = 1

\* C10: pingDb returns true exactly when acquisition and query both succeeded, a
\* failure of either reaches the caller as an exception, and it never returns false.
C10_TrueOrThrows ==
    \A p \in 1..MaxPing :
        /\ pings[p].result # "false"
        /\ pings[p].pc = "done" =>
              /\ pings[p].result = "true" <=> (pings[p].connect = "ok" /\ pings[p].query = "ok")
              /\ (pings[p].connect = "fail" \/ pings[p].query = "fail") =>
                    pings[p].result = "threw"

C10_Witness ==
    /\ \E p \in 1..MaxPing : pings[p].result = "true"
    /\ \E p \in 1..MaxPing : pings[p].result = "threw" /\ pings[p].connect = "fail"
    /\ \E p \in 1..MaxPing : pings[p].result = "threw" /\ pings[p].query = "fail"

\* C11: a guarded request that has ended called next() exactly once and sent
\* nothing, or sent exactly one 401 and never called next(); one that has not
\* ended has done neither and can still move on once its awaited call settles;
\* no request starts more than one refresh-token exchange.
C11_OneTerminalOutcome ==
    \A r \in Guarded :
        /\ reqs[r].exchanges <= 1
        /\ reqs[r].pc = "done" =>
              \/ (reqs[r].nexts = 1 /\ reqs[r].responses = 0 /\ reqs[r].status = 0)
              \/ (reqs[r].nexts = 0 /\ reqs[r].responses = 1 /\ reqs[r].status = 401)
        /\ reqs[r].pc # "done" =>
              /\ reqs[r].nexts = 0 /\ reqs[r].responses = 0
              /\ reqs[r].pc = "awaitConfig" =>
                    IF promises[reqs[r].cfg].state = "pending"
                    THEN ENABLED DiscoverySettles(reqs[r].cfg, TRUE)
                    ELSE ENABLED GuardConfigSettled(r)
              /\ reqs[r].pc = "awaitGrant" =>
                    ENABLED (\E t \in TokenResponses(clock) : GuardGrantSettled(r, FALSE, t))

C11_Witness ==
    \E r1, r2 \in Guarded :
        /\ AUTH_ENABLED
        /\ reqs[r1].exchanges = 1 /\ reqs[r1].grant = "fail" /\ reqs[r1].responses = 1
        /\ reqs[r2].exchanges = 1 /\ reqs[r2].grant = "ok" /\ reqs[r2].nexts = 1

\* C12: the user a guarded request carries differs from the one it arrived with
\* only when its own refresh-token exchange succeeded; on every other path, the
\* denials after a rejected discovery or a rejected exchange included, claims,
\* access_token, refresh_token and expires_at are what they were.
C12_UserChangedOnlyByRefresh ==
    \A r \in Guarded :
        reqs[r].grant # "ok" =>
            /\ reqs[r].user = reqs[r].user0
            /\ reqs[r].user0 # NoUser =>
                  /\ reqs[r].user.claims = reqs[r].user0.claims
                  /\ reqs[r].user.access_token = reqs[r].user0.access_token
                  /\ reqs[r].user.refresh_token = reqs[r].user0.refresh_token
                  /\ reqs[r].user.expires_at = reqs[r].user0.expires_at

C12_Witness ==
    \E r1, r2 \in Guarded :
        /\ AUTH_ENABLED
        /\ reqs[r1].pc = "done" /\ reqs[r1].grant = "fail" /\ reqs[r1].user = reqs[r1].user0
        /\ reqs[r2].pc = "done" /\ reqs[r2].cfg # 0 /\ reqs[r2].exchanges = 0
        /\ reqs[r2].user = reqs[r2].user0 /\ reqs[r2].user0 # NoUser

\* C16: every denial of the guard is the same answer, status 401 with the message
\* "Unauthorized", whatever the reason: no principal, no expiry, expired without a
\* refresh token, rejected discovery or rejected exchange.
C16_DenialsIndistinguishable ==
    \A r1, r2 \in Guarded :
        (reqs[r1].responses > 0 /\ reqs[r2].responses > 0) =>
            /\ reqs[r1].status = 401
            /\ reqs[r1].body = "Unauthorized"
            /\ reqs[r1].status = reqs[r2].status
            /\ reqs[r1].body = reqs[r2].body

C16_Witness ==
    \E r1, r2 \in Guarded :
        /\ reqs[r1].grant = "fail" /\ reqs[r1].status = 401
        /\ reqs[r2].cfg # 0 /\ reqs[r2].exchanges = 0 /\ reqs[r2].status = 401
        /\ reqs[r1].body = reqs[r2].body

\* the guarded requests that arrived with an expired session and a refresh token
\* and have got past the await of the discovery
RefreshCandidates ==
    { r \in Guarded : /\ AUTH_ENABLED
                      /\ ExpiredAtCheck(reqs[r])
                      /\ reqs[r].user0.refresh_token # Undefined
                      /\ reqs[r].pc \in {"awaitGrant", "done"} }

RECURSIVE SumExchanges(_)
SumExchanges(S) ==
    IF S = {} THEN 0
    ELSE LET r == CHOOSE x \in S : TRUE IN reqs[r].exchanges + SumExchanges(S \ {r})

\* C13 (as claimed): every request with an expired session and a refresh token
\* issues its own exchange, so there are as many exchanges as such requests, and
\* it is passed on exactly when its own exchange succeeded.
C13_OneExchangePerRequest ==
    /\ SumExchanges(RefreshCandidates) = Cardinality(RefreshCandidates)
    /\ \A r \in RefreshCandidates :
          /\ reqs[r].exchanges = 1
          /\ reqs[r].pc = "done" => (reqs[r].outcome = "next" <=> reqs[r].grant = "ok")

\* the refresh candidates whose discovery promise resolved
RefreshStarters == { r \in RefreshCandidates : promises[reqs[r].cfg].state = "ok" }

\* C13 (amended): every request with an expired session and a refresh token whose
\* discovery resolved issues its own exchange, whatever the other requests with
\* the same token are doing, so there are as many exchanges as such requests; one
\* whose discovery was rejected issues none and is denied; and a request is
\* passed on exactly when its own exchange succeeded.
C13_OneExchangePerStarter ==
    /\ SumExchanges(RefreshCandidates) = Cardinality(RefreshStarters)
    /\ \A r \in RefreshCandidates :
          /\ r \in RefreshStarters => reqs[r].exchanges = 1
          /\ r \notin RefreshStarters =>
                (reqs[r].exchanges = 0 /\ reqs[r].pc = "done" /\ reqs[r].status = 401)
          /\ reqs[r].pc = "done" => (reqs[r].outcome = "next" <=> reqs[r].grant = "ok")

C13_Witness ==
    \E r1, r2 \in RefreshStarters :
        /\ r1 # r2
        /\ reqs[r1].user0 = reqs[r2].user0
        /\ reqs[r1].refreshToken = reqs[r2].refreshToken
        /\ reqs[r1].cfg = reqs[r2].cfg
        /\ reqs[r1].pc = "done" /\ reqs[r1].grant = "ok" /\ reqs[r1].outcome = "next"
        /\ reqs[r2].pc = "done" /\ reqs[r2].grant = "fail" /\ reqs[r2].status = 401
        /\ reqs[r1].exchanges + reqs[r2].exchanges = 2

\* the configured origins: the pieces between the commas of the raw setting,
\* without the blanks around them, that are not empty
ConfiguredOrigins ==
    LET raw == IF env.ALLOWED_ORIGINS # Unset THEN env.ALLOWED_ORIGINS[1]
               ELSE IF env.REPLIT_DOMAINS # Unset THEN env.REPLIT_DOMAINS[1] ELSE << >>
        IsPiece(i, j) ==
            /\ i <= j
            /\ \A k \in i..j : raw[k] # ","
            /\ raw[i] # " " /\ raw[j] # " "
            /\ \A k \in 1..(i-1) : (\A m \in k..(i-1) : raw[m] # ",") => raw[k] = " "
            /\ \A k \in (j+1)..Len(raw) : (\A m \in (j+1)..k : raw[m] # ",") => raw[k] = " "
    IN  { SubSeq(raw, i, j) : << i, j >> \in
            { p \in (1..Len(raw)) \X (1..Len(raw)) : IsPiece(p[1], p[2]) } }

\* C14: with auth enabled, once setupAuth has completed the registered strategies
\* are exactly "replitauth:" + d for the configured origins d, before that none is
\* registered, no request changes them, and a login or callback for any other
\* hostname names a strategy that is not registered and is not served by one.
C14_OneStrategyPerOrigin ==
    AUTH_ENABLED =>
        /\ setup = "ready" => strategies = { StrategyName(d) : d \in ConfiguredOrigins }
        /\ setup # "ready" => strategies = {}
        /\ \A r \in 1..MaxReq :
              reqs[r].route \in {"login", "callback"} =>
                  /\ reqs[r].strategy \in strategies <=>
                        \E d \in ConfiguredOrigins : reqs[r].strategy = << "replitauth:" >> \o d
                  /\ reqs[r].strategy \notin strategies <=> reqs[r].status = 500

C14_Witness ==
    /\ AUTH_ENABLED
    /\ setup = "ready"
    /\ Cardinality(strategies) = 2
    /\ \E r1, r2 \in 1..MaxReq :
          /\ reqs[r1].route = "login" /\ reqs[r1].strategy \notin strategies
          /\ reqs[r2].route = "callback" /\ reqs[r2].strategy \in strategies

\* C17: after a successful refresh the four user fields are those of the token
\* response and nothing of the previous user is kept: without an ID token claims
\* and expires_at are absent, without a refresh token refresh_token is absent.
\* A later guarded request that arrives with that user is answered 401 with no
\* discovery and no exchange, at once when the expiry is absent, and once the
\* new expiry has passed when the refresh token is absent.
C17_RefreshOverwritesUser ==
    \A r1 \in Guarded :
        reqs[r1].grant = "ok" =>
            LET t == reqs[r1].tokens
                u == reqs[r1].user
            IN  /\ u.claims = t.claims
                /\ u.access_token = t.access_token
                /\ u.refresh_token = t.refresh_token
                /\ u.expires_at = (IF t.claims = NoClaims THEN NoExp ELSE t.claims.exp)
                /\ \A r2 \in Guarded :
                      (r2 > r1 /\ AUTH_ENABLED /\ reqs[r2].user0 = u) =>
                          /\ t.claims = NoClaims =>
                                /\ reqs[r2].pc = "done" /\ reqs[r2].status = 401
                                /\ reqs[r2].cfg = 0 /\ reqs[r2].exchanges = 0
                          /\ (t.claims # NoClaims /\ t.refresh_token = Undefined
                                /\ reqs[r2].now > u.expires_at) =>
                                /\ reqs[r2].pc = "done" /\ reqs[r2].status = 401
                                /\ reqs[r2].cfg = 0 /\ reqs[r2].exchanges = 0

C17_Witness ==
    \E r1, r2 \in Guarded :
        /\ r2 > r1
        /\ reqs[r1].grant = "ok"
        /\ reqs[r1].user0.refresh_token # Undefined
        /\ reqs[r1].tokens.claims # NoClaims
        /\ reqs[r1].tokens.refresh_token = Undefined
        /\ reqs[r2].user0 = reqs[r1].user
        /\ reqs[r2].now > reqs[r2].user0.expires_at
        /\ reqs[r2].status = 401

\* REPL_ID is set and not empty
HasClientId == IF env.REPL_ID = Unset THEN FALSE ELSE env.REPL_ID[1] # << >>

\* C15: AUTH_ENABLED is true exactly when the configured origin list (from
\* ALLOWED_ORIGINS if set, else REPLIT_DOMAINS; split on commas, trimmed, empty
\* entries dropped) is not empty and REPL_ID is not empty; allowedDomains holds
\* exactly those origins; with auth disabled startup never fails; and the value
\* stays what the environment made it at load.
C15_AuthEnabledIffConfigured ==
    /\ AUTH_ENABLED <=> (ConfiguredOrigins # {} /\ HasClientId)
    /\ { allowedDomains[i] : i \in 1..Len(allowedDomains) } = ConfiguredOrigins
    /\ ~AUTH_ENABLED =>
          /\ setup \in {"start", "ready"}
          /\ promises = << >>
          /\ \A r \in 1..MaxReq : reqs[r].route = "login" => reqs[r].status = 503

C15_Witness ==
    /\ env.ALLOWED_ORIGINS = << << " ", "," >> >>
    /\ env.REPLIT_DOMAINS = << << "a" >> >>
    /\ HasClientId
    /\ ~AUTH_ENABLED
    /\ setup = "ready"
    /\ \E r \in 1..MaxReq : reqs[r].route = "login" /\ reqs[r].status = 503

====
